---------------------------- MODULE Spec2Model ----------------------------
(* Model of conanfile.py: the recipe class VulkanAppConan (settings,      *)
(* requirements(), layout(), generate()) as it is driven through one or   *)
(* more invocations of the package-management tool.  The recipe's own     *)
(* statements are translated from the source; the tool's part (matching   *)
(* the settings tuple against the build profiles, resolving the declared  *)
(* requirements, starting the next invocation) is the collaborator the    *)
(* specification describes.                                               *)
EXTENDS Naturals, Sequences, FiniteSets

(* ---------------------------------------------------------------- bounds *)

MaxRuns == 2

(* ------------------------------------------------------ recipe constants *)

\* variant: the recipe forgets to declare the arch axis
SettingsAxesNoArch == <<"os", "compiler", "build_type">>

\* settings = "os", "compiler", "build_type", "arch"
SettingsAxes == <<"os", "compiler", "build_type", "arch">>

\* self.requires("glfw/3.4")
Glfw == "glfw/3.4"

\* self.requires("glm/cci.20230113")
Glm == "glm/cci.20230113"

\* cmake_layout(self)
LayoutKind == "cmake_layout"

\* variant: generate() stops after the toolchain generator
GenerateOrderToolchainOnly == <<"toolchain">>

\* variant: generate() runs the dependency generator first
GenerateOrderSwapped == <<"deps", "toolchain">>

\* the generators a generate() call runs, in statement order
GenerateOrder == <<"toolchain", "deps">>

(* ------------------------------------------------- environment (inputs) *)

AxisValues ==
    [os |-> {"Linux", "Windows"},
     compiler |-> {"gcc", "msvc"},
     build_type |-> {"Release", "Debug"},
     arch |-> {"x86_64", "armv8"}]

SettingsTuples ==
    [os : AxisValues.os, compiler : AxisValues.compiler,
     build_type : AxisValues.build_type, arch : AxisValues.arch]

LinuxGcc == [os |-> "Linux", compiler |-> "gcc", build_type |-> "Release", arch |-> "x86_64"]
LinuxGccDebug == [os |-> "Linux", compiler |-> "gcc", build_type |-> "Debug", arch |-> "x86_64"]
WindowsMsvc == [os |-> "Windows", compiler |-> "msvc", build_type |-> "Release", arch |-> "x86_64"]

ProfileSets == {{LinuxGcc, LinuxGccDebug, WindowsMsvc}, {LinuxGcc}}

PackageRefs == {Glfw, Glm, "glfw/3.3"}

Artifacts == {"toolchain", "deps"}

Absent == [kind |-> "absent", body |-> <<>>]
Stale == [kind |-> "stale", body |-> <<>>]
Partial == [kind |-> "partial", body |-> <<>>]

InitialFiles == {[a \in Artifacts |-> Absent], [a \in Artifacts |-> Stale]}

Errors == {"UnsupportedSettings", "UnresolvedDependency", "FilesystemWriteFailure"}

Terminal == {"done", "failed"}

VARIABLES
    settings,   \* the settings tuple supplied at invocation time
    profiles,   \* the build profiles available to the tool
    available,  \* the package references available to the resolver
    files,      \* the output location: artifact -> file
    requires,   \* the requirements the recipe has declared (self.requires)
    folders,    \* the layout applied to the recipe (self.folders)
    called,     \* the configuration methods already called
    resolved,   \* the declared requirements have been resolved
    pc,         \* position of the invocation
    ip,         \* position inside generate()
    outcome,    \* result reported to the invoking tool
    written,    \* artifacts completely written by this invocation
    attempted,  \* generators this invocation has started
    before,     \* the files at the start of this invocation
    snapshot,   \* the files left by the preceding invocation if it succeeded
    run         \* number of the invocation

vars == <<settings, profiles, available, files, requires, folders, called,
          resolved, pc, ip, outcome, written, attempted, before, snapshot, run>>

env == <<settings, profiles, available>>

NoSnapshot == [a \in Artifacts |-> [kind |-> "none", body |-> <<>>]]

(* ------------------------------------------------------- pure functions *)

\* the settings the recipe sees: the declared axes only
DeclaredSettings(s) == [i \in 1..Len(SettingsAxes) |-> s[SettingsAxes[i]]]

\* a settings tuple has a matching build profile
Supported(s, ps) == \E p \in ps : DeclaredSettings(p) = DeclaredSettings(s)

\* a requirement's version constraint is satisfied by an available package
Satisfiable(ref, avail) == ref \in avail

\* self.requires(ref)
Requires(reqs, ref) == Append(reqs, ref)

\* the resolved entry of one requirement for the current settings
ResolvedEntry(ref, s) ==
    [ref |-> ref,
     include_paths |-> <<ref, "include">>,
     library_paths |-> <<ref, "lib", s.os, s.arch, s.build_type>>,
     link_names |-> <<ref, "link">>]

\* CMakeToolchain(self).generate(): the toolchain description
ToolchainContent ==
    [kind |-> "toolchain",
     body |-> DeclaredSettings(settings) \o <<folders>>]

\* variant: the description is appended to the file already on disk
DepsContentAppend ==
    [kind |-> "deps",
     body |-> files["deps"].body \o
              [i \in 1..Len(requires) |-> ResolvedEntry(requires[i], settings)]]

\* CMakeDeps(self).generate(): the dependency-resolution description
DepsContent ==
    [kind |-> "deps",
     body |-> [i \in 1..Len(requires) |-> ResolvedEntry(requires[i], settings)]]

Content(a) == IF a = "toolchain" THEN ToolchainContent ELSE DepsContent

(* ---------------------------------------------------------------- Init *)

Init ==
    /\ settings \in SettingsTuples
    /\ profiles \in ProfileSets
    /\ available \in SUBSET PackageRefs
    /\ files \in InitialFiles
    /\ requires = <<>>
    /\ folders = "unset"
    /\ called = {}
    /\ resolved = FALSE
    /\ pc = "load"
    /\ ip = 1
    /\ outcome = "none"
    /\ written = {}
    /\ attempted = {}
    /\ before = files
    /\ snapshot = NoSnapshot
    /\ run = 1

(* ------------------------------------------------------------- actions *)

\* the tool matches the settings tuple against the build profiles
LoadSettings ==
    /\ pc = "load"
    /\ IF Supported(settings, profiles)
       THEN pc' = "configure" /\ outcome' = outcome
       ELSE pc' = "failed" /\ outcome' = "UnsupportedSettings"
    /\ UNCHANGED <<env, files, requires, folders, called, resolved, ip,
                   written, attempted, before, snapshot, run>>

\* variant: requirements() declares the windowing library only
requirements_glfw_only ==
    /\ pc = "configure"
    /\ "requirements" \notin called
    /\ requires' = Requires(requires, Glfw)
    /\ called' = called \cup {"requirements"}
    /\ UNCHANGED <<env, files, folders, resolved, pc, ip, outcome,
                   written, attempted, before, snapshot, run>>

\* variant: requirements() declares the windowing library twice
requirements_glfw_twice ==
    /\ pc = "configure"
    /\ "requirements" \notin called
    /\ requires' = Requires(Requires(Requires(requires, Glfw), Glfw), Glm)
    /\ called' = called \cup {"requirements"}
    /\ UNCHANGED <<env, files, folders, resolved, pc, ip, outcome,
                   written, attempted, before, snapshot, run>>

\* def requirements(self)
requirements ==
    /\ pc = "configure"
    /\ "requirements" \notin called
    /\ requires' = Requires(Requires(requires, Glfw), Glm)
    /\ called' = called \cup {"requirements"}
    /\ UNCHANGED <<env, files, folders, resolved, pc, ip, outcome,
                   written, attempted, before, snapshot, run>>

\* the resolver resolves every declared requirement, or reports the failure
ResolveDependencies ==
    /\ pc = "configure"
    /\ "requirements" \in called
    /\ ~resolved
    /\ IF \A i \in 1..Len(requires) : Satisfiable(requires[i], available)
       THEN resolved' = TRUE /\ pc' = pc /\ outcome' = outcome
       ELSE resolved' = resolved /\ pc' = "failed"
            /\ outcome' = "UnresolvedDependency"
    /\ UNCHANGED <<env, files, requires, folders, called, ip,
                   written, attempted, before, snapshot, run>>

\* def layout(self)
layout ==
    /\ pc = "configure"
    /\ "layout" \notin called
    /\ folders' = LayoutKind
    /\ called' = called \cup {"layout"}
    /\ UNCHANGED <<env, files, requires, resolved, pc, ip, outcome,
                   written, attempted, before, snapshot, run>>

\* def generate(self): entry
generate ==
    /\ pc = "configure"
    /\ resolved
    /\ "layout" \in called
    /\ pc' = "generate"
    /\ ip' = 1
    /\ UNCHANGED <<env, files, requires, folders, called, resolved, outcome,
                   written, attempted, before, snapshot, run>>

\* variant: generate() declares a requirement again while generating
GenerateOkRedeclare(a) ==
    /\ pc = "generate"
    /\ ip <= Len(GenerateOrder)
    /\ GenerateOrder[ip] = a
    /\ requires' = Requires(requires, Glfw)
    /\ files' = [files EXCEPT ![a] = Content(a)]
    /\ written' = written \cup {a}
    /\ attempted' = attempted \cup {a}
    /\ ip' = ip + 1
    /\ IF ip = Len(GenerateOrder)
       THEN pc' = "done" /\ outcome' = "ok"
       ELSE pc' = pc /\ outcome' = outcome
    /\ UNCHANGED <<env, folders, called, resolved, before, snapshot, run>>

\* a generator's generate() returns: its description is on disk
GenerateOk(a) ==
    /\ pc = "generate"
    /\ ip <= Len(GenerateOrder)
    /\ GenerateOrder[ip] = a
    /\ files' = [files EXCEPT ![a] = Content(a)]
    /\ written' = written \cup {a}
    /\ attempted' = attempted \cup {a}
    /\ ip' = ip + 1
    /\ IF ip = Len(GenerateOrder)
       THEN pc' = "done" /\ outcome' = "ok"
       ELSE pc' = pc /\ outcome' = outcome
    /\ UNCHANGED <<env, requires, folders, called, resolved, before,
                   snapshot, run>>

\* variant: the exception is caught, recorded, and generate() carries on
GenerateRaiseContinue(a) ==
    /\ pc = "generate"
    /\ ip <= Len(GenerateOrder)
    /\ GenerateOrder[ip] = a
    /\ files' \in {files, [files EXCEPT ![a] = Partial]}
    /\ attempted' = attempted \cup {a}
    /\ ip' = ip + 1
    /\ pc' = IF ip = Len(GenerateOrder) THEN "failed" ELSE pc
    /\ outcome' = "FilesystemWriteFailure"
    /\ UNCHANGED <<env, requires, folders, called, resolved, written,
                   before, snapshot, run>>

\* variant: the exception is caught and generate() starts over
GenerateRaiseRetry(a) ==
    /\ pc = "generate"
    /\ ip <= Len(GenerateOrder)
    /\ GenerateOrder[ip] = a
    /\ files' \in {files, [files EXCEPT ![a] = Partial]}
    /\ attempted' = attempted \cup {a}
    /\ ip' = 1
    /\ UNCHANGED <<env, requires, folders, called, resolved, pc, outcome,
                   written, before, snapshot, run>>

\* a generator's generate() raises: the exception leaves generate()
GenerateRaise(a) ==
    /\ pc = "generate"
    /\ ip <= Len(GenerateOrder)
    /\ GenerateOrder[ip] = a
    /\ files' \in {files, [files EXCEPT ![a] = Partial]}
    /\ attempted' = attempted \cup {a}
    /\ pc' = "failed"
    /\ outcome' = "FilesystemWriteFailure"
    /\ UNCHANGED <<env, requires, folders, called, resolved, ip, written,
                   before, snapshot, run>>

\* tc = CMakeToolchain(self); tc.generate()
tc_generate == GenerateOk("toolchain") \/ GenerateRaise("toolchain")

\* deps = CMakeDeps(self); deps.generate()
deps_generate == GenerateOk("deps") \/ GenerateRaise("deps")

\* the tool is invoked again on the same recipe, settings and environment
NewInvocation ==
    /\ pc \in Terminal
    /\ run < MaxRuns
    /\ run' = run + 1
    /\ snapshot' = IF outcome = "ok" THEN files ELSE NoSnapshot
    /\ before' = files
    /\ requires' = <<>>
    /\ folders' = "unset"
    /\ called' = {}
    /\ resolved' = FALSE
    /\ pc' = "load"
    /\ ip' = 1
    /\ outcome' = "none"
    /\ written' = {}
    /\ attempted' = {}
    /\ UNCHANGED <<env, files>>

Next ==
    \/ LoadSettings
    \/ requirements
    \/ ResolveDependencies
    \/ layout
    \/ generate
    \/ tc_generate
    \/ deps_generate
    \/ NewInvocation

Spec == Init /\ [][Next]_vars

FairSpec == Spec /\ WF_vars(Next)

(* --------------------------------------------------------------- claims *)

DepsBody == files["deps"].body

EntryRefs == {DepsBody[i].ref : i \in 1..Len(DepsBody)}

Unsatisfiable == \E r \in {Glfw, Glm} : ~Satisfiable(r, available)

C2_UnsupportedSettingsWritesNothing ==
    settings \notin profiles =>
        /\ pc \notin {"generate", "done"}
        /\ pc = "failed" => outcome = "UnsupportedSettings"
        /\ written = {} /\ attempted = {} /\ files = before

C2_Witness ==
    /\ settings \notin profiles
    /\ pc = "failed" /\ outcome = "UnsupportedSettings"
    /\ \E p \in profiles : p.os = settings.os /\ p.arch # settings.arch

\* C3: after a successful generation the dependency-resolution description
\* holds a resolved entry for every declared requirement that an available
\* package satisfies.
C3_SatisfiableHasEntry ==
    pc = "done" =>
        \A r \in {Glfw, Glm} :
            Satisfiable(r, available) =>
                /\ files["deps"].kind = "deps"
                /\ \E i \in 1..Len(DepsBody) :
                       DepsBody[i] = ResolvedEntry(r, settings)

C3_Witness ==
    /\ pc = "done" /\ Satisfiable(Glfw, available)
    /\ \E i \in 1..Len(DepsBody) : DepsBody[i].ref = Glfw

C5_NoStepAfterError ==
    /\ [](outcome \in Errors <=> pc = "failed")
    /\ []((outcome \in Errors /\ "toolchain" \notin written)
              => "deps" \notin attempted)
    /\ [][(outcome \in Errors) => (run' = run + 1)]_vars

C5_Witness ==
    /\ pc = "failed" /\ outcome = "FilesystemWriteFailure"
    /\ attempted = {"toolchain"} /\ written = {}

\* C6: the manifest is read-only during an invocation: the layout step and
\* every step of generate(), failing or not, leave the settings tuple and
\* its axes and the declared requirements unchanged, and the steps of
\* generate() leave the layout unchanged; only files and bookkeeping move.
C6_ManifestReadOnly ==
    [][(pc = "generate" \/ ("layout" \in called' /\ "layout" \notin called))
          => /\ settings' = settings
             /\ DOMAIN settings' = {SettingsAxes[i] : i \in 1..Len(SettingsAxes)}
             /\ requires' = requires
             /\ pc = "generate" => folders' = folders
             /\ folders' = LayoutKind]_vars

C6_Witness ==
    /\ pc = "failed" /\ outcome = "FilesystemWriteFailure"
    /\ written = {"toolchain"} /\ files # before
    /\ requires = <<Glfw, Glm>> /\ folders = LayoutKind

\* C7: every invocation runs to completion: it eventually reaches a
\* terminal outcome, which is either success with both descriptions written
\* or exactly one of the three errors.
C7_RunsToCompletion ==
    /\ [](pc = "done" =>
            /\ outcome = "ok" /\ written = Artifacts
            /\ files["toolchain"].kind = "toolchain"
            /\ files["deps"].kind = "deps")
    /\ [](pc = "failed" => outcome \in Errors)
    /\ \A k \in 1..MaxRuns : (run = k) ~> (run = k /\ pc \in Terminal)

C7_Witness ==
    pc = "done" /\ outcome = "ok" /\ written = Artifacts /\ run = MaxRuns

\* C8: on success the dependency-resolution description has exactly one
\* entry per declared requirement, each with its include paths, library
\* paths and link names; for this manifest exactly two, glfw/3.4 and
\* glm/cci.20230113.
C8_ExactlyOneEntryPerRequirement ==
    pc = "done" =>
        /\ Len(DepsBody) = Len(requires)
        /\ \A i \in 1..Len(DepsBody) :
              /\ DepsBody[i].ref = requires[i]
              /\ DOMAIN DepsBody[i] =
                    {"ref", "include_paths", "library_paths", "link_names"}
        /\ Len(DepsBody) = 2
        /\ EntryRefs = {"glfw/3.4", "glm/cci.20230113"}

C8_Witness ==
    pc = "done" /\ Len(DepsBody) = 2 /\ DepsBody[2].ref = "glm/cci.20230113"

\* C9: generate() runs the toolchain generator first and the dependency
\* generator second: whenever this invocation has started or written the
\* dependency-resolution description it has already written the toolchain
\* description.
C9_ToolchainBeforeDeps ==
    ("deps" \in written \/ "deps" \in attempted) => "toolchain" \in written

C9_Witness ==
    "deps" \in written /\ "toolchain" \in written

\* C10 as stated: an invocation that ends in UnresolvedDependency or
\* FilesystemWriteFailure has written neither description.
C10_Original ==
    (pc = "failed" /\ outcome \in {"UnresolvedDependency", "FilesystemWriteFailure"})
        => written = {}

\* C10 as amended: an invocation that ends in UnresolvedDependency has
\* written neither description and left the files as they were; one that
\* ends in FilesystemWriteFailure has not written the dependency-resolution
\* description, and has written the toolchain description exactly when the
\* failure happened in the dependency generator.
C10_FailureLeavesNoDeps ==
    /\ (pc = "failed" /\ outcome = "UnresolvedDependency")
          => (written = {} /\ attempted = {} /\ files = before)
    /\ (pc = "failed" /\ outcome = "FilesystemWriteFailure")
          => /\ "deps" \notin written
             /\ files["deps"] \in {before["deps"], Partial}
             /\ "toolchain" \in written <=> "deps" \in attempted

C10_Witness ==
    /\ pc = "failed" /\ outcome = "FilesystemWriteFailure"
    /\ written = {"toolchain"} /\ attempted = Artifacts

=============================================================================
